---- MODULE Spec2Model ----
(***************************************************************************)
(* fin-tracker: combine_transactions.py and utils/parsers.py.              *)
(*                                                                         *)
(* Python strings are sequences of one-character strings, so that lower(), *)
(* split('_'), substring tests, isdigit() and slicing are computed.        *)
(* Canonical column names (the values of the column mappings) are only     *)
(* ever compared for equality and are kept as TLA+ strings.                *)
(***************************************************************************)
EXTENDS Integers, Sequences, FiniteSets, Bags, TLC

(* ------------------------------------------------------------------ *)
(* Bounds of the model                                                  *)
(* ------------------------------------------------------------------ *)
\* files in one batch (Chase list and Discover list together)
MaxFiles == 3
\* data rows of a single file
MaxRows == 2
\* characters after the institution token in a generated stem
MaxSuffix == 4

(* ------------------------------------------------------------------ *)
(* String literals of the source                                        *)
(* ------------------------------------------------------------------ *)
sDetails == <<"D", "e", "t", "a", "i", "l", "s">>
sPostingDate == <<"P", "o", "s", "t", "i", "n", "g", " ", "D", "a", "t", "e">>
sDescription == <<"D", "e", "s", "c", "r", "i", "p", "t", "i", "o", "n">>
sAmount == <<"A", "m", "o", "u", "n", "t">>
sType == <<"T", "y", "p", "e">>
sBalance == <<"B", "a", "l", "a", "n", "c", "e">>
sCheckOrSlip == <<"C", "h", "e", "c", "k", " ", "o", "r", " ", "S", "l", "i", "p", " ", "#">>
sTransactionDate == <<"T", "r", "a", "n", "s", "a", "c", "t", "i", "o", "n", " ", "D", "a", "t", "e">>
sPostDate == <<"P", "o", "s", "t", " ", "D", "a", "t", "e">>
sCategory == <<"C", "a", "t", "e", "g", "o", "r", "y">>
sMemo == <<"M", "e", "m", "o">>
sTransDate == <<"T", "r", "a", "n", "s", ".", " ", "D", "a", "t", "e">>
kw_chase == <<"c", "h", "a", "s", "e">>
kw_discover == <<"d", "i", "s", "c", "o", "v", "e", "r">>
kw_details == <<"d", "e", "t", "a", "i", "l", "s">>
kw_balance == <<"b", "a", "l", "a", "n", "c", "e">>
kw_transaction_date == <<"t", "r", "a", "n", "s", "a", "c", "t", "i", "o", "n", " ", "d", "a", "t", "e">>
kw_category == <<"c", "a", "t", "e", "g", "o", "r", "y">>
kw_check == <<"c", "h", "e", "c", "k">>
kw_debit == <<"d", "e", "b", "i", "t">>
kw_credit == <<"c", "r", "e", "d", "i", "t">>
kw_card == <<"c", "a", "r", "d">>
t_checking == <<"c", "h", "e", "c", "k", "i", "n", "g">>
t_credit == <<"c", "r", "e", "d", "i", "t">>
CREDIT == <<"C", "R", "E", "D", "I", "T">>
DEBIT == <<"D", "E", "B", "I", "T">>
\* Python's None, for a variable that otherwise holds a string
None == <<"None">>

(* ------------------------------------------------------------------ *)
(* str methods                                                          *)
(* ------------------------------------------------------------------ *)
UpperAlpha == <<"A","B","C","D","E","F","G","H","I","J","K","L","M",
                "N","O","P","Q","R","S","T","U","V","W","X","Y","Z">>
LowerAlpha == <<"a","b","c","d","e","f","g","h","i","j","k","l","m",
                "n","o","p","q","r","s","t","u","v","w","x","y","z">>
Digits == {"0","1","2","3","4","5","6","7","8","9"}

\* a list and a mapping built value by value (a [x \in S |-> e] is otherwise
\* computed again at every use)
MakeRows(f) == f \o <<>>
MakeRow(f) == f @@ f

\* one character of str.lower()
LowerChar(c) ==
  IF \E j \in 1..Len(UpperAlpha) : UpperAlpha[j] = c
  THEN LowerAlpha[CHOOSE j \in 1..Len(UpperAlpha) : UpperAlpha[j] = c]
  ELSE c

\* s.lower()
Lower(s) == MakeRows([j \in 1..Len(s) |-> LowerChar(s[j])])

\* t in s
Contains(s, t) ==
  \E j \in 0..(Len(s) - Len(t)) : SubSeq(s, j + 1, j + Len(t)) = t

\* s.isdigit(): false on the empty string
IsDigit(s) == Len(s) > 0 /\ \A j \in 1..Len(s) : s[j] \in Digits

\* ''.join(filter(str.isdigit, s))
FilterDigits(s) == SelectSeq(s, LAMBDA c : c \in Digits)

\* s[-4:]
Last4(s) == IF Len(s) <= 4 THEN s ELSE SubSeq(s, Len(s) - 3, Len(s))

\* s.split('_'): the segments between underscores, empty ones included
RECURSIVE Split(_)
Split(s) ==
  IF \A j \in 1..Len(s) : s[j] # "_"
  THEN <<s>>
  ELSE LET k == CHOOSE j \in 1..Len(s) :
                   s[j] = "_" /\ \A m \in 1..(j - 1) : s[m] # "_"
       IN  <<SubSeq(s, 1, k - 1)>> \o Split(SubSeq(s, k + 1, Len(s)))

\* ','.join(headers)
RECURSIVE Join(_)
Join(h) ==
  IF Len(h) = 0 THEN <<>>
  ELSE IF Len(h) = 1 THEN h[1]
  ELSE h[1] \o <<",">> \o Join(Tail(h))

(* ------------------------------------------------------------------ *)
(* Cells: the text of a CSV field, and the values pandas holds          *)
(* ------------------------------------------------------------------ *)
\* CSV text
RawDate(n) == [k |-> "datestr", v |-> n, s |-> <<>>]
RawNum(x) == [k |-> "numstr", v |-> x, s |-> <<>>]
RawEmpty == [k |-> "empty", v |-> 0, s |-> <<>>]
RawText(t) == [k |-> "text", v |-> 0, s |-> t]

\* values of a DataFrame
DateV(n) == [k |-> "date", v |-> n, s |-> <<>>]
NaT == [k |-> "NaT", v |-> 0, s |-> <<>>]
Num(x) == [k |-> "float", v |-> x, s |-> <<>>]
NaN == [k |-> "NaN", v |-> 0, s |-> <<>>]
Str(t) == [k |-> "str", v |-> 0, s |-> t]
DateStr(n) == [k |-> "str-date", v |-> n, s |-> <<>>]

\* pd.isna
IsNull(c) == c.k \in {"NaN", "NaT"}

\* pd.read_csv on one field: a number, a missing value, or the text itself
ReadCell(c) ==
  CASE c.k = "numstr" -> Num(c.v)
    [] c.k = "empty" -> NaN
    [] c.k = "datestr" -> DateStr(c.v)
    [] OTHER -> Str(c.s)

\* pd.to_datetime(...).dt.date on one value; text that is no date raises
CanDatetime(c) == c.k \in {"str-date", "NaN", "NaT", "date", "float"}
ToDate(c) ==
  CASE c.k = "str-date" -> DateV(c.v)
    [] c.k = "date" -> c
    [] c.k = "float" -> DateV(0)
    [] OTHER -> NaT

\* astype(float) on one value; text that is no number raises
CanFloat(c) == c.k \in {"float", "NaN"}
AsFloat(c) == c

\* -1 * x on a float: NaN stays NaN
Negate(c) == IF c.k = "float" THEN Num(0 - c.v) ELSE c

\* x >= 0 on a float: False for NaN
GeZero(c) == c.k = "float" /\ c.v >= 0

(* ------------------------------------------------------------------ *)
(* DataFrames: an ordered list of column names and a list of rows, each *)
(* row a function from the column names to values                       *)
(* ------------------------------------------------------------------ *)
Range(s) == {s[j] : j \in 1..Len(s)}

EmptyFrame == [cols |-> <<>>, rows |-> <<>>]

\* df.empty
IsEmpty(df) == Len(df.cols) = 0 \/ Len(df.rows) = 0

\* df[c] = values, one value a row: a new column goes last, an existing one
\* is overwritten
SetCol(df, c, values) ==
  [cols |-> IF c \in Range(df.cols) THEN df.cols ELSE Append(df.cols, c),
   rows |-> MakeRows([r \in 1..Len(df.rows) |-> MakeRow((c :> values[r]) @@ df.rows[r])])]

\* the values of a column after a conversion of each: df[c].map(...)
Scalar(df, value) == [r \in 1..Len(df.rows) |-> value]

\* a column mapping dict literal, as the list of its key: value entries
ChaseCheckingEntries ==
  << [key |-> sPostingDate, val |-> "Date"],
     [key |-> sPostingDate, val |-> "PostDate"],
     [key |-> sDetails, val |-> "CredDeb"],
     [key |-> sDescription, val |-> "Description"],
     [key |-> sAmount, val |-> "Amount"],
     [key |-> sType, val |-> "TransactionType"],
     [key |-> sCheckOrSlip, val |-> "CheckNumber"] >>

ChaseCreditEntries ==
  << [key |-> sTransactionDate, val |-> "Date"],
     [key |-> sPostDate, val |-> "PostDate"],
     [key |-> sDescription, val |-> "Description"],
     [key |-> sCategory, val |-> "Category"],
     [key |-> sType, val |-> "TransactionType"],
     [key |-> sAmount, val |-> "Amount"],
     [key |-> sMemo, val |-> "Memo"] >>

DiscoverEntries ==
  << [key |-> sTransDate, val |-> "Date"],
     [key |-> sPostDate, val |-> "PostDate"],
     [key |-> sDescription, val |-> "Description"],
     [key |-> sCategory, val |-> "Category"],
     [key |-> sAmount, val |-> "Amount"] >>

\* the dict a literal builds: a repeated key keeps its place and takes the
\* value of its last entry
DictKeys(entries) == {entries[j].key : j \in 1..Len(entries)}
DictGet(entries, key) ==
  LET last == CHOOSE j \in 1..Len(entries) :
                 /\ entries[j].key = key
                 /\ \A m \in (j + 1)..Len(entries) : entries[m].key # key
  IN  entries[last].val
\* list(d.keys()): each key once, at its first entry
DictKeyList(entries) ==
  LET first(j) == \A m \in 1..(j - 1) : entries[m].key # entries[j].key
      idx == SelectSeq([j \in 1..Len(entries) |-> j], first)
  IN  MakeRows([j \in 1..Len(idx) |-> entries[idx[j]].key])

\* a file on disk: its stem, whether it can be opened and decoded, its header
\* row and its data rows (each as long as the header)
ColumnIndex(header, c) == CHOOSE j \in 1..Len(header) : header[j] = c

\* pd.read_csv: raises on an unreadable file and on a file with no header
ReadCsvRaises(f) == ~f.readable \/ Len(f.header) = 0
ReadCsv(f) ==
  [cols |-> f.header,
   rows |-> MakeRows([r \in 1..Len(f.rows) |->
               MakeRow([c \in Range(f.header) |->
                  ReadCell(f.rows[r][ColumnIndex(f.header, c)])])])]

\* df[keep].rename(columns=mapping)
SelectRename(df, keep, entries) ==
  [cols |-> MakeRows([j \in 1..Len(keep) |-> DictGet(entries, keep[j])]),
   rows |-> MakeRows([r \in 1..Len(df.rows) |->
               MakeRow([x \in {DictGet(entries, keep[j]) : j \in 1..Len(keep)} |->
                  LET raw == CHOOSE c \in Range(keep) : DictGet(entries, c) = x
                  IN  df.rows[r][raw]])])]

\* a conversion of a whole column raises when one of its values does
DatetimeRaises(df, c) ==
  c \in Range(df.cols) /\ \E r \in 1..Len(df.rows) : ~CanDatetime(df.rows[r][c])
FloatRaises(df, c) ==
  c \in Range(df.cols) /\ \E r \in 1..Len(df.rows) : ~CanFloat(df.rows[r][c])

\* df[c] = pd.to_datetime(df[c]).dt.date, when the column exists
DateColumn(df, c) ==
  IF c \in Range(df.cols) THEN SetCol(df, c, [r \in 1..Len(df.rows) |-> ToDate(df.rows[r][c])]) ELSE df

\* a line printed to stdout
Ev(e, stem, id, typ) == [ev |-> e, stem |-> stem, id |-> id, typ |-> typ]

\* the result of a parser: "ok" with a DataFrame, "none" for a returned
\* None, "exc" for an exception that leaves the function
Result(st, df, out) == [st |-> st, df |-> df, out |-> out]

(* ------------------------------------------------------------------ *)
(* utils/parsers.py                                                     *)
(* ------------------------------------------------------------------ *)
\* the conversions both parsers end with, on the renamed frame: Date and
\* PostDate to dates, Amount to float (negated for Discover); any value that
\* does not convert raises
ConversionRaises(df) ==
  \/ DatetimeRaises(df, "Date")
  \/ DatetimeRaises(df, "PostDate")
  \/ FloatRaises(df, "Amount")

ChaseAmount(df) ==
  IF "Amount" \in Range(df.cols)
  THEN SetCol(df, "Amount", [r \in 1..Len(df.rows) |-> AsFloat(df.rows[r]["Amount"])])
  ELSE df

\* parse_chase_csv from the renaming on
ChaseConvert(df, out) ==
  IF ConversionRaises(df) THEN Result("exc", EmptyFrame, out)
  ELSE Result("ok", ChaseAmount(DateColumn(DateColumn(df, "Date"), "PostDate")), out)

\* the choice of the column mapping: the checking format is told by three
\* exact column names, everything else is taken for the credit card format
IsCheckingFormat(columns) ==
  sDetails \in columns /\ sPostingDate \in columns /\ sBalance \in columns

ChaseMapping(columns) ==
  IF IsCheckingFormat(columns) THEN ChaseCheckingEntries ELSE ChaseCreditEntries

\* parse_chase_csv on the frame read
ChaseSelect(df, stem) ==
  LET column_mapping == ChaseMapping(Range(df.cols))
      detected == <<Ev("Detected Chase format", stem, <<>>,
                       IF IsCheckingFormat(Range(df.cols)) THEN t_checking ELSE t_credit)>>
      existing_columns == Range(df.cols) \cap DictKeys(column_mapping)
  IN  IF existing_columns = {}
      THEN Result("none", EmptyFrame,
                  detected \o <<Ev("No recognized columns", stem, <<>>, <<>>)>>)
      ELSE ChaseConvert(
             SelectRename(df, SelectSeq(df.cols, LAMBDA c : c \in existing_columns),
                          column_mapping),
             detected)

\* the body of parse_chase_csv's try block
ParseChaseBody(f) ==
  IF ReadCsvRaises(f) THEN Result("exc", EmptyFrame, <<>>)
  ELSE ChaseSelect(ReadCsv(f), f.stem)

\* a parser without its except clause: the exception leaves it
CatchParseErrorMissing(res, stem) == res

\* the except clause: the error is printed and None returned
CatchParseError(res, stem) ==
  IF res.st = "exc"
  THEN Result("none", EmptyFrame, res.out \o <<Ev("Error parsing CSV", stem, <<>>, <<>>)>>)
  ELSE res

parse_chase_csv(f) == CatchParseError(ParseChaseBody(f), f.stem)

DiscoverAmount(df) ==
  IF "Amount" \in Range(df.cols)
  THEN SetCol(df, "Amount",
              [r \in 1..Len(df.rows) |-> Negate(AsFloat(df.rows[r]["Amount"]))])
  ELSE df

\* the TransactionType column, added when the frame has none; df['Amount']
\* raises KeyError on a frame without an Amount column
SynthesizeRaises(df) ==
  "TransactionType" \notin Range(df.cols) /\ "Amount" \notin Range(df.cols)
SynthesizeType(df) ==
  IF "TransactionType" \notin Range(df.cols)
  THEN SetCol(df, "TransactionType",
              [r \in 1..Len(df.rows) |->
                 IF GeZero(df.rows[r]["Amount"]) THEN Str(CREDIT) ELSE Str(DEBIT)])
  ELSE df

\* parse_discover_csv from the renaming on
DiscoverConvert(df) ==
  IF ConversionRaises(df) \/ SynthesizeRaises(df) THEN Result("exc", EmptyFrame, <<>>)
  ELSE Result("ok",
              SynthesizeType(DiscoverAmount(DateColumn(DateColumn(df, "Date"), "PostDate"))),
              <<>>)

\* parse_discover_csv on the frame read
DiscoverSelect(df) ==
  LET column_mapping == DiscoverEntries
      existing_columns == Range(df.cols) \cap DictKeys(column_mapping)
  IN  DiscoverConvert(
        SelectRename(df, SelectSeq(DictKeyList(column_mapping),
                                   LAMBDA c : c \in existing_columns),
                     column_mapping))

\* the body of parse_discover_csv's try block
ParseDiscoverBody(f) ==
  IF ReadCsvRaises(f) THEN Result("exc", EmptyFrame, <<>>)
  ELSE DiscoverSelect(ReadCsv(f))

parse_discover_csv(f) == CatchParseError(ParseDiscoverBody(f), f.stem)

(* ------------------------------------------------------------------ *)
(* combine_transactions.py                                              *)
(* ------------------------------------------------------------------ *)
\* identify_file_type: (bank_name, account_type); any exception gives
\* (None, None)
identify_file_type(f) ==
  IF ~f.readable THEN <<None, None>>
  ELSE
    LET headers_str == Lower(Join(f.header))
        stem == Lower(f.stem)
        bank_name == IF Contains(stem, kw_chase) THEN kw_chase
                     ELSE IF Contains(stem, kw_discover) THEN kw_discover
                     ELSE None
        account_type ==
          IF bank_name = kw_chase
          THEN IF Contains(headers_str, kw_details) /\ Contains(headers_str, kw_balance)
               THEN t_checking
               ELSE IF /\ Contains(headers_str, kw_transaction_date)
                       /\ Contains(headers_str, kw_category)
                    THEN t_credit
                    ELSE None
          ELSE IF bank_name = kw_discover THEN t_credit
          ELSE None
    IN  <<bank_name, account_type>>

\* the scan with digits[:4] for digits[-4:]
RECURSIVE ScanPartsFirst4(_)
ScanPartsFirst4(parts) ==
  IF Len(parts) = 0 THEN None
  ELSE LET part == Head(parts)
           digits == FilterDigits(part)
       IN  IF IsDigit(part) /\ Len(part) = 4 THEN part
           ELSE IF Len(digits) > 0 /\ Len(digits) >= 4 THEN SubSeq(digits, 1, 4)
           ELSE ScanPartsFirst4(Tail(parts))

\* the for loop over filename.split('_'): the first part that passes one of
\* the two tests ends the scan
RECURSIVE ScanParts(_)
ScanParts(parts) ==
  IF Len(parts) = 0 THEN None
  ELSE LET part == Head(parts)
           digits == FilterDigits(part)
       IN  IF IsDigit(part) /\ Len(part) = 4 THEN part
           ELSE IF Len(digits) > 0 /\ Len(digits) >= 4 THEN Last4(digits)
           ELSE ScanParts(Tail(parts))

\* account_number of a filename stem (the same code in the Chase loop and in
\* the Discover loop)
ExtractAccountNumber(filename) ==
  IF "_" \in Range(filename)
  THEN ScanParts(Split(filename))
  ELSE LET digits == FilterDigits(filename)
       IN  IF Len(digits) > 0 /\ Len(digits) >= 4 THEN Last4(digits) ELSE None

\* the filename keywords that stand in for an undetected account type
InferTypeFromFilename(filename, detected) ==
  IF detected # None THEN detected
  ELSE IF Contains(Lower(filename), kw_check) \/ Contains(Lower(filename), kw_debit)
  THEN t_checking
  ELSE IF Contains(Lower(filename), kw_credit) \/ Contains(Lower(filename), kw_card)
  THEN t_credit
  ELSE None

\* account_id of a Chase file
ChaseAccountId(account_num, detected) ==
  IF account_num # None
  THEN IF detected # None
       THEN kw_chase \o <<"_">> \o detected \o account_num
       ELSE kw_chase \o account_num
  ELSE IF detected # None
       THEN kw_chase \o <<"_">> \o detected
       ELSE kw_chase \o <<"_", "u", "n", "k", "n", "o", "w", "n">>

\* account_id of a Discover file
DiscoverAccountId(account_num) ==
  IF account_num # None THEN kw_discover \o account_num ELSE kw_discover

\* df["Account"] = account_id; df["AccountType"] = ... when it is set
Stamp(df, id, typ) ==
  LET a == SetCol(df, "Account", Scalar(df, Str(id)))
  IN  IF typ # None THEN SetCol(a, "AccountType", Scalar(a, Str(typ))) ELSE a

\* the columns of pd.concat: the union, in the order of first appearance
RECURSIVE ConcatCols(_)
ConcatCols(frames) ==
  IF Len(frames) = 0 THEN <<>>
  ELSE LET before == ConcatCols(SubSeq(frames, 1, Len(frames) - 1))
           last == frames[Len(frames)].cols
       IN  before \o SelectSeq(last, LAMBDA c : c \notin Range(before))

\* the rows of pd.concat: every frame's rows in turn, NaN where a frame has
\* no such column
RECURSIVE ConcatRows(_, _)
ConcatRows(frames, cols) ==
  IF Len(frames) = 0 THEN <<>>
  ELSE LET df == Head(frames)
       IN  [r \in 1..Len(df.rows) |->
              MakeRow([c \in Range(cols) |->
                 IF c \in Range(df.cols) THEN df.rows[r][c] ELSE NaN])]
           \o ConcatRows(Tail(frames), cols)

\* pd.concat(all_transactions, ignore_index=True), or pd.DataFrame()
Concat(frames) ==
  IF Len(frames) = 0 THEN EmptyFrame
  ELSE [cols |-> ConcatCols(frames), rows |-> ConcatRows(frames, ConcatCols(frames))]

\* x put into the sorted list t at place j (0: first)
InsertAt(t, x, j) == SubSeq(t, 1, j) \o <<x>> \o SubSeq(t, j + 1, Len(t))

\* the orders an ascending sort by Date may leave rows with a Date in: rows
\* of one Date in any order (sort_values' default kind is not stable)
RECURSIVE SortedOrders(_)
SortedOrders(rows) ==
  IF Len(rows) = 0 THEN {<<>>}
  ELSE LET x == rows[Len(rows)]
       IN  UNION { { InsertAt(t, x, j) :
                       j \in { m \in 0..Len(t) :
                                 /\ \A a \in 1..m : t[a]["Date"].v <= x["Date"].v
                                 /\ \A b \in (m + 1)..Len(t) :
                                       x["Date"].v <= t[b]["Date"].v } } :
                   t \in SortedOrders(SubSeq(rows, 1, Len(rows) - 1)) }

\* the sort with na_position='first'
SortValuesNaFirst(df) ==
  LET dated == SelectSeq(df.rows, LAMBDA row : ~IsNull(row["Date"]))
      missing == SelectSeq(df.rows, LAMBDA row : IsNull(row["Date"]))
  IN  { [cols |-> df.cols, rows |-> missing \o t] : t \in SortedOrders(dated) }

\* df.sort_values("Date"): rows without a Date go last (na_position='last'),
\* in the order they had
SortValues(df) ==
  LET dated == SelectSeq(df.rows, LAMBDA row : ~IsNull(row["Date"]))
      missing == SelectSeq(df.rows, LAMBDA row : IsNull(row["Date"]))
  IN  { [cols |-> df.cols, rows |-> t \o missing] : t \in SortedOrders(dated) }

(* ------------------------------------------------------------------ *)
(* Input files                                                          *)
(* ------------------------------------------------------------------ *)
File(stem, readable, header, rows) ==
  [stem |-> stem, readable |-> readable, header |-> header, rows |-> rows]

\* text no parser takes for a date or a number
Garbage == RawText(<<"n", "/", "a">>)

\* a data row under a header: the date columns hold d, Amount holds a
DateColumns == {sTransactionDate, sTransDate, sPostingDate, sPostDate}
MkRow(header, d, a) ==
  [j \in 1..Len(header) |->
     IF header[j] \in DateColumns THEN d
     ELSE IF header[j] = sAmount THEN a
     ELSE IF header[j] = sBalance THEN RawNum(5)
     ELSE IF header[j] \in {sMemo, sCheckOrSlip} THEN RawEmpty
     ELSE IF header[j] = sType THEN RawText(<<"S", "a", "l", "e">>)
     ELSE RawText(<<"x">>)]

MkRows(header, specs) == [r \in 1..Len(specs) |-> MkRow(header, specs[r].d, specs[r].a)]

RowSpecs ==
  { [d |-> RawDate(1), a |-> RawNum(2)],
    [d |-> RawDate(2), a |-> RawNum(-1)],
    [d |-> RawDate(3), a |-> RawNum(0)],
    [d |-> RawEmpty, a |-> RawNum(2)],
    [d |-> Garbage, a |-> RawNum(-1)],
    [d |-> RawDate(2), a |-> RawEmpty],
    [d |-> RawDate(1), a |-> Garbage] }

SeqsUpTo(S, n) == UNION { [1..m -> S] : m \in 0..n }

ChaseCheckingHeader ==
  <<sDetails, sPostingDate, sDescription, sAmount, sType, sBalance, sCheckOrSlip>>
ChaseCreditHeader ==
  <<sTransactionDate, sPostDate, sDescription, sCategory, sType, sAmount, sMemo>>
DiscoverHeader == <<sTransDate, sPostDate, sDescription, sAmount, sCategory>>

ChaseHeaders ==
  { ChaseCheckingHeader,
    ChaseCreditHeader,
    \* the names the checking mapping recognizes, and no other
    <<sDetails, sPostingDate, sDescription, sAmount, sType, sCheckOrSlip>>,
    <<sTransactionDate, sPostDate, sDescription, sAmount>>,
    <<sDetails, sDescription, sAmount, sBalance>>,
    <<Lower(sDetails), Lower(sPostingDate), Lower(sBalance)>>,
    <<>> }

DiscoverHeaders ==
  { DiscoverHeader,
    <<sTransDate, sPostDate, sDescription, sCategory>>,
    <<sPostDate, sAmount>> }

ChaseStems ==
  { <<"C", "h", "a", "s", "e", "_", "1", "2", "3", "4">>,
    <<"c", "h", "a", "s", "e", "_", "c", "h", "e", "c", "k", "i", "n", "g">>,
    <<"C", "H", "A", "S", "E">>,
    <<"c", "h", "a", "s", "e", "9", "8", "7", "6", "5", "_", "c", "a", "r", "d">> }

DiscoverStems ==
  { <<"D", "i", "s", "c", "o", "v", "e", "r", "_", "5", "6", "7", "8">>,
    <<"d", "i", "s", "c", "o", "v", "e", "r">>,
    <<"d", "i", "s", "c", "o", "v", "e", "r", "5", "6", "7", "8", "_", "o", "l", "d">> }

\* one file, of any header and any rows
SingleChaseFiles ==
  { File(stem, TRUE, header, MkRows(header, specs)) :
      stem \in ChaseStems, header \in ChaseHeaders, specs \in SeqsUpTo(RowSpecs, MaxRows) }
  \cup { File(stem, FALSE, ChaseCreditHeader, <<>>) : stem \in ChaseStems }

SingleDiscoverFiles ==
  { File(stem, TRUE, header, MkRows(header, specs)) :
      stem \in DiscoverStems, header \in DiscoverHeaders,
      specs \in SeqsUpTo(RowSpecs, MaxRows) }
  \cup { File(stem, FALSE, DiscoverHeader, <<>>) : stem \in DiscoverStems }

\* one well-formed file, of any stem around the institution's name
StemAlphabet == {"1", "2", "a", "_"}
StemPrefixes ==
  { <<>>, <<"2", "1", "2", "1">>, <<"1", "_">>, <<"2", "1", "2", "1", "2", "_">> }
GeneratedStems(token) ==
  { pre \o token \o suf : pre \in StemPrefixes, suf \in SeqsUpTo(StemAlphabet, MaxSuffix) }
OneRow == <<[d |-> RawDate(1), a |-> RawNum(2)]>>
StemChaseFiles ==
  { File(stem, TRUE, ChaseCreditHeader, MkRows(ChaseCreditHeader, OneRow)) :
      stem \in GeneratedStems(<<"C", "h", "a", "s", "e">>) }
StemDiscoverFiles ==
  { File(stem, TRUE, DiscoverHeader, MkRows(DiscoverHeader, OneRow)) :
      stem \in GeneratedStems(<<"D", "i", "s", "c", "o", "v", "e", "r">>) }

\* the files of a batch
BatchChaseFiles ==
  { File(<<"C", "h", "a", "s", "e", "_", "1", "2", "3", "4">>, TRUE, ChaseCreditHeader,
         MkRows(ChaseCreditHeader, << [d |-> RawDate(3), a |-> RawNum(-1)],
                                      [d |-> RawDate(1), a |-> RawNum(2)] >>)),
    File(<<"c", "h", "a", "s", "e", "_", "c", "h", "e", "c", "k", "i", "n", "g">>, TRUE,
         ChaseCheckingHeader,
         MkRows(ChaseCheckingHeader, << [d |-> RawDate(2), a |-> RawNum(-1)] >>)),
    File(<<"C", "h", "a", "s", "e", "_", "b", "a", "d">>, TRUE, ChaseCreditHeader,
         MkRows(ChaseCreditHeader, << [d |-> RawDate(1), a |-> RawNum(2)],
                                      [d |-> Garbage, a |-> RawNum(-1)] >>)),
    File(<<"c", "h", "a", "s", "e">>, FALSE, ChaseCreditHeader, <<>>) }

BatchDiscoverFiles ==
  { File(<<"D", "i", "s", "c", "o", "v", "e", "r", "_", "5", "6", "7", "8">>, TRUE,
         DiscoverHeader,
         MkRows(DiscoverHeader, << [d |-> RawDate(2), a |-> RawNum(2)],
                                   [d |-> RawEmpty, a |-> RawNum(-1)] >>)),
    File(<<"d", "i", "s", "c", "o", "v", "e", "r">>, TRUE, DiscoverHeader,
         MkRows(DiscoverHeader, << [d |-> RawDate(1), a |-> Garbage] >>)),
    File(<<"d", "i", "s", "c", "o", "v", "e", "r", "9", "9", "9", "9">>, TRUE, DiscoverHeader,
         MkRows(DiscoverHeader, << [d |-> RawDate(1), a |-> RawNum(-3)] >>)),
    File(<<"d", "i", "s", "c", "o", "v", "e", "r", "_", "x">>, TRUE, <<sPostDate, sDescription>>,
         MkRows(<<sPostDate, sDescription>>, << [d |-> RawDate(1), a |-> RawNum(2)] >>)) }

\* what find_transaction_files hands to process_transaction_files: the
\* Chase files and the Discover files of the month's folder
Inputs ==
  UNION { { [chase |-> c, discover |-> d] :
              d \in SeqsUpTo(BatchDiscoverFiles, MaxFiles - Len(c)) } :
            c \in SeqsUpTo(BatchChaseFiles, MaxFiles) }
  \cup { [chase |-> <<f>>, discover |-> <<>>] : f \in SingleChaseFiles \cup StemChaseFiles }
  \cup { [chase |-> <<>>, discover |-> <<f>>] :
           f \in SingleDiscoverFiles \cup StemDiscoverFiles }

(* ------------------------------------------------------------------ *)
(* State                                                                *)
(* ------------------------------------------------------------------ *)
VARIABLES
  transaction_files,      \* the dict main passes on: the files of each institution
  pc,                     \* where main is
  idx,                    \* the place of the running for loop in its list
  identified,             \* what identify_file_type returned for the last file
  detected_account_type,  \* locals of the last loop iteration
  account_number,
  account_id,
  df,
  all_transactions,       \* the DataFrames collected so far
  combined_df,            \* main's combined_df
  output,                 \* the rows written to the output file
  stdout                  \* the lines printed

vars == <<transaction_files, pc, idx, identified, detected_account_type, account_number,
          account_id, df, all_transactions, combined_df, output, stdout>>

locals == <<identified, detected_account_type, account_number, account_id, df>>

Init ==
  /\ transaction_files \in Inputs
  /\ pc = "main"
  /\ idx = 1
  /\ identified = <<None, None>>
  /\ detected_account_type = None
  /\ account_number = None
  /\ account_id = None
  /\ df = Result("none", EmptyFrame, <<>>)
  /\ all_transactions = <<>>
  /\ combined_df = EmptyFrame
  /\ output = EmptyFrame
  /\ stdout = <<>>

\* main up to the call of process_transaction_files; find_transaction_files
\* gives a key only to an institution that has files
Main ==
  /\ pc = "main"
  /\ IF Len(transaction_files.chase) = 0 /\ Len(transaction_files.discover) = 0
     THEN /\ pc' = "done"
          /\ stdout' = Append(stdout, Ev("No transaction files found.", <<>>, <<>>, <<>>))
     ELSE /\ pc' = "chase"
          /\ stdout' = stdout
  /\ UNCHANGED <<transaction_files, idx, locals, all_transactions, combined_df, output>>

\* an exception that leaves process_transaction_files ends in main's except
\* clause: the error is printed and nothing is written
Outcome(res, next) == IF res.st = "exc" THEN "failed" ELSE next

\* if df is not None and not df.empty: the frame is stamped with the account
\* (and with the account type, when one is set) ...
StampIfKept(res, id, typ) ==
  IF res.st = "ok" /\ ~IsEmpty(res.df)
  THEN Result("ok", Stamp(res.df, id, typ), <<>>)
  ELSE Result(res.st, res.df, <<>>)

\* ... and appended to all_transactions
Collect(all, d) == IF d.st = "ok" /\ ~IsEmpty(d.df) THEN Append(all, d.df) ELSE all

\* one iteration of the loop over transaction_files["chase"]
ProcessChaseFile ==
  /\ pc = "chase"
  /\ idx <= Len(transaction_files.chase)
  /\ LET file_path == transaction_files.chase[idx]
         filename == file_path.stem
         it == identify_file_type(file_path)
         num == ExtractAccountNumber(filename)
         typ == InferTypeFromFilename(filename, it[2])
         id == ChaseAccountId(num, typ)
     IN  \E res \in {parse_chase_csv(file_path)} :
           /\ identified' = it
           /\ account_number' = num
           /\ detected_account_type' = typ
           /\ account_id' = id
           /\ stdout' = stdout \o <<Ev("Processing Chase file", filename, id, typ)>>
                               \o res.out
           /\ df' = StampIfKept(res, id, typ)
           /\ all_transactions' = Collect(all_transactions, df')
           /\ pc' = Outcome(res, "chase")
  /\ idx' = idx + 1
  /\ UNCHANGED <<transaction_files, combined_df, output>>

\* the Chase loop is over (or there is no "chase" key)
ChaseLoopEnd ==
  /\ pc = "chase"
  /\ idx > Len(transaction_files.chase)
  /\ pc' = "discover"
  /\ idx' = 1
  /\ UNCHANGED <<transaction_files, locals, all_transactions, combined_df, output, stdout>>

\* one iteration of the loop over transaction_files["discover"]
ProcessDiscoverFile ==
  /\ pc = "discover"
  /\ idx <= Len(transaction_files.discover)
  /\ LET file_path == transaction_files.discover[idx]
         filename == file_path.stem
         it == identify_file_type(file_path)
         num == ExtractAccountNumber(filename)
         id == DiscoverAccountId(num)
     IN  \E res \in {parse_discover_csv(file_path)} :
           /\ identified' = it
           /\ account_number' = num
           /\ detected_account_type' = it[2]
           /\ account_id' = id
           /\ stdout' = stdout \o <<Ev("Processing Discover file", filename, id, <<>>)>>
                               \o res.out
           /\ df' = StampIfKept(res, id, t_credit)
           /\ all_transactions' = Collect(all_transactions, df')
           /\ pc' = Outcome(res, "discover")
  /\ idx' = idx + 1
  /\ UNCHANGED <<transaction_files, combined_df, output>>

\* the end of process_transaction_files, and main's test of its result
Combine ==
  /\ pc = "discover"
  /\ idx > Len(transaction_files.discover)
  /\ combined_df' = Concat(all_transactions)
  /\ IF IsEmpty(combined_df')
     THEN /\ pc' = "done"
          /\ stdout' = Append(stdout, Ev("No transactions were processed.", <<>>, <<>>, <<>>))
     ELSE /\ pc' = "sort"
          /\ stdout' = stdout
  /\ UNCHANGED <<transaction_files, idx, locals, all_transactions, output>>

\* main: the sort by Date, the output file, the summary (whose date range
\* raises KeyError, caught by main, on a frame without a Date column)
SortAndSave ==
  /\ pc = "sort"
  /\ \E sorted \in (IF "Date" \in Range(combined_df.cols)
                    THEN SortValues(combined_df) ELSE {combined_df}) :
       /\ combined_df' = sorted
       /\ output' = sorted
  /\ stdout' = Append(stdout,
                      IF "Date" \in Range(combined_df.cols)
                      THEN Ev("Transaction Summary", <<>>, <<>>, <<>>)
                      ELSE Ev("Error", <<>>, <<>>, <<>>))
  /\ pc' = "done"
  /\ UNCHANGED <<transaction_files, idx, locals, all_transactions>>

Next ==
  \/ Main
  \/ ProcessChaseFile
  \/ ChaseLoopEnd
  \/ ProcessDiscoverFile
  \/ Combine
  \/ SortAndSave

Spec == Init /\ [][Next]_vars

(* ------------------------------------------------------------------ *)
(* The file the running loop has just processed                         *)
(* ------------------------------------------------------------------ *)
InLoop == pc \in {"chase", "discover"} /\ idx > 1
LastFile ==
  IF pc = "chase" THEN transaction_files.chase[idx - 1]
  ELSE transaction_files.discover[idx - 1]
Institution == IF pc = "chase" THEN kw_chase ELSE kw_discover
\* the file gave records: df is stamped and appended
Emitted == InLoop /\ df.st = "ok" /\ ~IsEmpty(df.df)
Records == df.df.rows
\* the text of a column of the source file in its r-th data row
SourceCell(f, r, c) == f.rows[r][ColumnIndex(f.header, c)]
Has(row, c) == c \in DOMAIN row

(* ------------------------------------------------------------------ *)
(* Claims                                                               *)
(* ------------------------------------------------------------------ *)

\* C1: every record a Discover file gives has Amount equal to the negation
\* of the source amount; a record tagged DEBIT has Amount < 0, and no
\* positive source amount comes out with a positive Amount.
C1_DiscoverSign ==
  (Emitted /\ pc = "discover") =>
    \A r \in 1..Len(Records) :
      LET src == SourceCell(LastFile, r, sAmount)
          amount == Records[r]["Amount"]
      IN  /\ src.k = "numstr" => amount = Num(0 - src.v)
          /\ Records[r]["TransactionType"] = Str(DEBIT)
               => (amount.k = "float" /\ amount.v < 0)
          /\ (src.k = "numstr" /\ src.v > 0) => ~(amount.k = "float" /\ amount.v > 0)

\* the account id as the composition rule gives it
ComposedAccountId(institution, account_type, account_num) ==
  IF account_type # None /\ account_num # None
  THEN institution \o <<"_">> \o account_type \o account_num
  ELSE IF account_type # None THEN institution \o <<"_">> \o account_type
  ELSE IF account_num # None THEN institution \o account_num
  ELSE institution \o <<"_", "u", "n", "k", "n", "o", "w", "n">>

\* C2: for a file of either institution, the Account written on its records
\* is the institution, "_" and the account type when it is known, and the
\* account number when it is known ("<institution>_unknown" when neither
\* is); it is never empty.
C2_AccountIdComposition ==
  Emitted =>
    \A r \in 1..Len(Records) :
      /\ Records[r]["Account"] =
           Str(ComposedAccountId(Institution, detected_account_type, account_number))
      /\ Len(Records[r]["Account"].s) > 0

\* a row of the source whose Date, PostDate or Amount text is neither empty
\* nor a date (a number, for Amount)
IsMalformedRow(f, r) ==
  \E j \in 1..Len(f.header) :
    \/ f.header[j] \in DateColumns /\ f.rows[r][j].k \notin {"datestr", "empty"}
    \/ f.header[j] = sAmount /\ f.rows[r][j].k \notin {"numstr", "empty"}
MalformedRows(f) == {r \in 1..Len(f.rows) : IsMalformedRow(f, r)}
HasStandardHeader(f) ==
  IF pc = "chase" THEN f.header \in {ChaseCheckingHeader, ChaseCreditHeader}
  ELSE f.header = DiscoverHeader

Catalog ==
  { [institution |-> kw_chase, account_type |-> t_checking, entries |-> ChaseCheckingEntries],
    [institution |-> kw_chase, account_type |-> t_credit, entries |-> ChaseCreditEntries],
    [institution |-> kw_discover, account_type |-> t_credit, entries |-> DiscoverEntries] }

\* C7: a header made of exactly the names a pair's column mapping
\* recognizes, on a file whose stem holds the institution's name, is
\* identified as that pair.
C7_DetectionRoundTrip ==
  InLoop =>
    \A d \in Catalog :
      ( /\ LastFile.readable
        /\ Range(LastFile.header) = DictKeys(d.entries)
        /\ Contains(Lower(LastFile.stem), d.institution) )
        => identified = <<d.institution, d.account_type>>

\* the source has a column that is mapped to TransactionType
HasTypeColumn(f) == pc = "chase" /\ sType \in Range(f.header)

\* C8: when the source has no column mapped to TransactionType, every
\* record carries one: CREDIT when its Amount >= 0, DEBIT otherwise.
C8_TypeSynthesis ==
  (Emitted /\ ~HasTypeColumn(LastFile)) =>
    \A r \in 1..Len(Records) :
      /\ Has(Records[r], "TransactionType")
      /\ Has(Records[r], "Amount")
      /\ Records[r]["TransactionType"] =
           (IF GeZero(Records[r]["Amount"]) THEN Str(CREDIT) ELSE Str(DEBIT))

\* every date field of the source holds a date
AllDatesPresent(f) ==
  \A r \in 1..Len(f.rows) : \A j \in 1..Len(f.header) :
    f.header[j] \in DateColumns => f.rows[r][j].k = "datestr"

\* C9: every record of every file, Chase checking files included, has a
\* calendar date in its Date field (stated here for the files with the
\* header of their format whose date fields all hold dates).
C9_DateRequired ==
  (Emitted /\ HasStandardHeader(LastFile) /\ AllDatesPresent(LastFile)) =>
    \A r \in 1..Len(Records) :
      Has(Records[r], "Date") /\ Records[r]["Date"].k = "date"

\* the format parse_chase_csv announced for the file just processed
AppliedMapping ==
  LET at == CHOOSE j \in 1..Len(stdout) :
              /\ stdout[j].ev = "Detected Chase format"
              /\ \A m \in (j + 1)..Len(stdout) : stdout[m].ev # "Detected Chase format"
  IN  stdout[at].typ

\* C10: the AccountType on the records of a Chase file is the account type
\* of the column mapping parse_chase_csv applied to it.
C10_DetectorAgreesWithParser ==
  (Emitted /\ pc = "chase") =>
    \A r \in 1..Len(Records) :
      Has(Records[r], "AccountType") => Records[r]["AccountType"] = Str(AppliedMapping)

\* the first index of a list of truth values that holds TRUE (0 when none
\* does)
FirstIndex(flags) ==
  IF \E j \in 1..Len(flags) : flags[j]
  THEN CHOOSE j \in 1..Len(flags) : flags[j] /\ \A m \in 1..(j - 1) : ~flags[m]
  ELSE 0

\* the last 4 digits of the first run of at least 4 consecutive digits
StartsRun4(s, j) == j + 3 <= Len(s) /\ IsDigit(SubSeq(s, j, j + 3))
HasDigitRun4(s) == \E j \in 1..Len(s) : StartsRun4(s, j)
Last4OfRun(s) ==
  LET from == CHOOSE j \in 1..Len(s) :
                StartsRun4(s, j) /\ \A m \in 1..(j - 1) : ~StartsRun4(s, m)
      to == CHOOSE j \in (from + 3)..Len(s) :
              /\ IsDigit(SubSeq(s, from, j))
              /\ (j = Len(s) \/ s[j + 1] \notin Digits)
  IN  SubSeq(s, to - 3, to)

\* the rule list as stated: a segment of exactly 4 digits first, then a
\* segment with a run of 4 digits or more
StatedAccountNumber(stem) ==
  IF "_" \in Range(stem)
  THEN LET parts == Split(stem)
           exact == FirstIndex([j \in 1..Len(parts) |-> IsDigit(parts[j]) /\ Len(parts[j]) = 4])
           run == FirstIndex([j \in 1..Len(parts) |-> HasDigitRun4(parts[j])])
       IN  IF exact > 0 THEN parts[exact]
           ELSE IF run > 0 THEN Last4OfRun(parts[run])
           ELSE None
  ELSE IF HasDigitRun4(stem) THEN Last4OfRun(stem) ELSE None

\* C3 as stated: with a '_' in the stem, the first segment of exactly 4
\* digits is the account number, otherwise the first segment with a run of
\* at least 4 digits gives the last 4 digits of that run; without a '_', the
\* stem's digit run gives its last 4 digits; otherwise there is none.
C3_StatedRuleList ==
  InLoop => account_number = StatedAccountNumber(LastFile.stem)

\* the rule list the code follows: the digit characters of a segment count,
\* wherever they stand in it, and the first segment with 4 of them or more
\* decides
AmendedAccountNumber(stem) ==
  LET parts == IF "_" \in Range(stem) THEN Split(stem) ELSE <<stem>>
      first == FirstIndex([j \in 1..Len(parts) |-> Len(FilterDigits(parts[j])) >= 4])
  IN  IF first > 0 THEN Last4(FilterDigits(parts[first])) ELSE None

\* C3, amended: with a '_' in the stem, its segments are scanned left to
\* right and the first segment holding at least 4 digit characters,
\* consecutive or not, gives the last 4 of its digit characters (a segment
\* of exactly 4 digits gives itself, and a later one does not take
\* precedence over an earlier segment with 4 digits or more); without a '_',
\* the digit characters of the whole stem give their last 4 when there are
\* at least 4; otherwise the account number is None.
C3_AmendedRuleList ==
  InLoop => account_number = AmendedAccountNumber(LastFile.stem)

\* a stem with a '_' whose account number is made of digits that do not
\* stand together in it
C3_Witness ==
  /\ InLoop
  /\ "_" \in Range(LastFile.stem)
  /\ account_number # None
  /\ ~Contains(LastFile.stem, account_number)

\* the files the loops have been through, with the parser of each
Processed ==
  LET c == transaction_files.chase
      d == transaction_files.discover
      tag(list, inst) == [j \in 1..Len(list) |-> [institution |-> inst, file |-> list[j]]]
  IN  IF pc = "main" THEN <<>>
      ELSE IF pc = "chase" THEN SubSeq(tag(c, "chase"), 1, idx - 1)
      ELSE IF pc = "discover" THEN tag(c, "chase") \o SubSeq(tag(d, "discover"), 1, idx - 1)
      ELSE tag(c, "chase") \o tag(d, "discover")

\* a file normalizes when its parser returns rows
Normalized(p) ==
  IF p.institution = "chase" THEN parse_chase_csv(p.file) ELSE parse_discover_csv(p.file)
Normalizes(p) == Normalized(p).st = "ok" /\ ~IsEmpty(Normalized(p).df)

\* the records of a list of frames, one after the other
RECURSIVE RowsOf(_)
RowsOf(frames) ==
  IF Len(frames) = 0 THEN <<>> ELSE Head(frames).rows \o RowsOf(Tail(frames))

\* r agrees with the record it comes from on every field of that record
Extends(r, record) == \A c \in DOMAIN record : Has(r, c) /\ r[c] = record[c]

\* C5: whichever files fail, and wherever they stand in the lists, no
\* exception leaves the loops, every file is gone through, and what is
\* collected, and then combined, is exactly the records of the files that
\* normalized, in the order of the files.
C5_FailuresNeverAbort ==
  LET good == SelectSeq(Processed, Normalizes)
      records == RowsOf(all_transactions)
  IN  /\ pc # "failed"
      /\ Len(all_transactions) = Len(good)
      /\ \A j \in 1..Len(good) :
           /\ Len(all_transactions[j].rows) = Len(Normalized(good[j]).df.rows)
           /\ \A r \in 1..Len(all_transactions[j].rows) :
                Extends(all_transactions[j].rows[r], Normalized(good[j]).df.rows[r])
      /\ pc = "sort" =>
           /\ Len(combined_df.rows) = Len(records)
           /\ \A r \in 1..Len(records) : Extends(combined_df.rows[r], records[r])
      /\ pc = "done" => Len(output.rows) = Len(records)

\* a batch is through in which a file that failed came before one that gave
\* records
C5_Witness ==
  /\ pc = "done"
  /\ Len(output.rows) > 0
  /\ \E i, j \in 1..Len(Processed) :
       i < j /\ ~Normalizes(Processed[i]) /\ Normalizes(Processed[j])
  /\ \E i, j \in 1..Len(Processed) :
       i < j /\ Normalizes(Processed[i]) /\ ~Normalizes(Processed[j])

\* how many times each value occurs in a list
BagOf(list) == [x \in Range(list) |-> Cardinality({j \in 1..Len(list) : list[j] = x})]

\* a record widened to the columns of the output, NaN where it has no value
Widen(record, cols) ==
  [c \in Range(cols) |-> IF Has(record, c) THEN record[c] ELSE NaN]
InputRecords ==
  LET records == RowsOf(all_transactions)
  IN  [r \in 1..Len(records) |-> Widen(records[r], output.cols)]

HasDate(record) == Has(record, "Date") /\ ~IsNull(record["Date"])
NoDate(record) == ~HasDate(record)

\* C6: the combined output holds every input record as often as the inputs
\* do (nothing dropped, duplicates kept; nothing at all for no input), in
\* ascending order of Date, the records without a Date last and in their
\* original order.
C6_Aggregation ==
  pc = "done" =>
    /\ BagOf(output.rows) = BagOf(InputRecords)
    /\ Len(output.rows) = Len(InputRecords)
    /\ \A i, j \in 1..Len(output.rows) :
         i < j => /\ NoDate(output.rows[i]) => NoDate(output.rows[j])
                  /\ (HasDate(output.rows[i]) /\ HasDate(output.rows[j]))
                       => output.rows[i]["Date"].v <= output.rows[j]["Date"].v
    /\ SelectSeq(output.rows, NoDate) = SelectSeq(InputRecords, NoDate)

\* an output that had to be reordered, with a record twice in it, and with
\* records without a Date that stood before dated ones
C6_Witness ==
  /\ pc = "done"
  /\ output.rows # InputRecords
  /\ \E i, j \in 1..Len(output.rows) : i < j /\ output.rows[i] = output.rows[j]
  /\ \E i, j \in 1..Len(InputRecords) :
       i < j /\ NoDate(InputRecords[i]) /\ HasDate(InputRecords[j])
  /\ \E i \in 1..Len(output.rows) : HasDate(output.rows[i])
====
